---- MODULE Spec2Model ----
(***************************************************************************)
(* Decoder capability resolution and fallback-chain reconciliation.        *)
(*                                                                         *)
(*   src/src/media/decoders/definitions.rs   catalogs, as_gst_element,     *)
(*                                           find_available_decoder        *)
(*   src/src/app/insights/types.rs           availability cache (OnceLock),*)
(*                                           build_chain_from_defs,        *)
(*                                           build_decoder_chain           *)
(*                                                                         *)
(* Rust strings that are searched (decoder names, properties, pipeline     *)
(* descriptors) are sequences of one-character strings, so that            *)
(* str::contains, str::ends_with and format! are computed character by     *)
(* character.  Strings that are only compared or copied (pixel formats,    *)
(* descriptions) are TLA+ strings.                                         *)
(***************************************************************************)
EXTENDS Integers, Sequences, FiniteSets, TLC

(***************************************************************************)
(* Bounds of the model.                                                    *)
(***************************************************************************)
\* threads that call into the subsystem concurrently
NumThreads == 2
\* changes of the element registry (plugin loaded / removed) in one run
MaxRegistryChanges == 1

(***************************************************************************)
(* String literals of the source.                                          *)
(***************************************************************************)
s_jpegdec ==
    <<"j", "p", "e", "g", "d", "e", "c">>
s_avdec_mjpeg ==
    <<"a", "v", "d", "e", "c", "_", "m", "j", "p", "e", "g">>
s_vaapijpegdec ==
    <<"v", "a", "a", "p", "i", "j", "p", "e", "g", "d", "e", "c">>
s_nvjpegdec ==
    <<"n", "v", "j", "p", "e", "g", "d", "e", "c">>
s_v4l2jpegdec ==
    <<"v", "4", "l", "2", "j", "p", "e", "g", "d", "e", "c">>
s_vah264dec ==
    <<"v", "a", "h", "2", "6", "4", "d", "e", "c">>
s_vaapih264dec ==
    <<"v", "a", "a", "p", "i", "h", "2", "6", "4", "d", "e", "c">>
s_nvh264dec ==
    <<"n", "v", "h", "2", "6", "4", "d", "e", "c">>
s_d3d11h264dec ==
    <<"d", "3", "d", "1", "1", "h", "2", "6", "4", "d", "e", "c">>
s_v4l2h264dec ==
    <<"v", "4", "l", "2", "h", "2", "6", "4", "d", "e", "c">>
s_avdec_h264 ==
    <<"a", "v", "d", "e", "c", "_", "h", "2", "6", "4">>
s_openh264dec ==
    <<"o", "p", "e", "n", "h", "2", "6", "4", "d", "e", "c">>
s_vah265dec ==
    <<"v", "a", "h", "2", "6", "5", "d", "e", "c">>
s_vaapih265dec ==
    <<"v", "a", "a", "p", "i", "h", "2", "6", "5", "d", "e", "c">>
s_nvh265dec ==
    <<"n", "v", "h", "2", "6", "5", "d", "e", "c">>
s_d3d11h265dec ==
    <<"d", "3", "d", "1", "1", "h", "2", "6", "5", "d", "e", "c">>
s_v4l2h265dec ==
    <<"v", "4", "l", "2", "h", "2", "6", "5", "d", "e", "c">>
s_avdec_h265 ==
    <<"a", "v", "d", "e", "c", "_", "h", "2", "6", "5">>
s_max_errors ==
    <<"m", "a", "x", "-", "e", "r", "r", "o", "r", "s", "=", "-", "1">>
s_max_threads ==
    <<"m", "a", "x", "-", "t", "h", "r", "e", "a", "d", "s", "=", "0">>
s_decodebin ==
    <<"d", "e", "c", "o", "d", "e", "b", "i", "n">>
s_head ==
    <<"p", "i", "p", "e", "w", "i", "r", "e", "s", "r", "c", " ", "!", " ">>
s_tail ==
    <<"a", "p", "p", "s", "i", "n", "k">>

(***************************************************************************)
(* Option<T>                                                               *)
(***************************************************************************)
None == [some |-> FALSE]
Some(x) == [some |-> TRUE, val |-> x]

(***************************************************************************)
(* str::contains, str::ends_with                                           *)
(***************************************************************************)
contains(s, pat) ==
    \E i \in 0..(Len(s) - Len(pat)) : SubSeq(s, i + 1, i + Len(pat)) = pat

ends_with(s, pat) ==
    /\ Len(pat) <= Len(s)
    /\ SubSeq(s, Len(s) - Len(pat) + 1, Len(s)) = pat

(***************************************************************************)
(* DecoderDef and its const constructors.                                  *)
(***************************************************************************)
sw(name, description) ==
    [name |-> name, description |-> description, props |-> None,
     is_hardware |-> FALSE]

sw_props(name, description, props) ==
    [name |-> name, description |-> description, props |-> Some(props),
     is_hardware |-> FALSE]

hw(name, description) ==
    [name |-> name, description |-> description, props |-> None,
     is_hardware |-> TRUE]

\* faulty variant of as_gst_element: the property string is dropped
as_gst_element_name_only(d) == d.name

\* DecoderDef::as_gst_element: "<name> <props>" or "<name>"
as_gst_element(d) ==
    IF d.props.some THEN d.name \o <<" ">> \o d.props.val ELSE d.name

(***************************************************************************)
(* The three catalogs, in preference order.                                *)
(***************************************************************************)
MJPEG_DECODERS ==
    << sw_props(s_jpegdec, "GStreamer JPEG (Software)", s_max_errors),
       sw(s_avdec_mjpeg, "FFmpeg MJPEG (Software)"),
       hw(s_vaapijpegdec, "VA-API JPEG (Intel/AMD HW)"),
       hw(s_nvjpegdec, "NVIDIA JPEG (NVDEC)"),
       hw(s_v4l2jpegdec, "V4L2 JPEG (Hardware)") >>

H264_DECODERS ==
    << hw(s_vah264dec, "VA-API H.264 (Modern HW)"),
       hw(s_vaapih264dec, "VA-API H.264 (Legacy HW)"),
       hw(s_nvh264dec, "NVIDIA H.264 (NVDEC)"),
       hw(s_d3d11h264dec, "Direct3D 11 H.264 (HW)"),
       hw(s_v4l2h264dec, "V4L2 H.264 (Hardware)"),
       sw_props(s_avdec_h264, "FFmpeg H.264 (SW, multi-threaded)", s_max_threads),
       sw(s_openh264dec, "OpenH264 (SW, single-threaded)") >>

H265_DECODERS ==
    << hw(s_vah265dec, "VA-API H.265 (Modern HW)"),
       hw(s_vaapih265dec, "VA-API H.265 (Legacy HW)"),
       hw(s_nvh265dec, "NVIDIA H.265 (NVDEC)"),
       hw(s_d3d11h265dec, "Direct3D 11 H.265 (HW)"),
       hw(s_v4l2h265dec, "V4L2 H.265 (Hardware)"),
       sw_props(s_avdec_h265, "FFmpeg H.265 (SW, multi-threaded)", s_max_threads) >>

\* the three availability statics, by the catalog they cache
Codecs == {"MJPEG", "H264", "H265"}

Catalog(c) ==
    CASE c = "MJPEG" -> MJPEG_DECODERS
      [] c = "H264" -> H264_DECODERS
      [] c = "H265" -> H265_DECODERS

NamesOf(decoders) == {decoders[i].name : i \in 1..Len(decoders)}

AllNames == UNION {NamesOf(Catalog(c)) : c \in Codecs}

(***************************************************************************)
(* State.                                                                  *)
(***************************************************************************)
VARIABLES
    registry,    \* the GStreamer element registry: names ElementFactory::find finds
    regChanges,  \* how many times the registry has changed in this run
    once,        \* per availability static: state of its OnceLock
    cache,       \* per availability static: the value the OnceLock holds
    pc,          \* per thread: where it is in its call
    frame,       \* per thread: arguments, locals and return value of its call, and
                 \*   what the call did: registry answers seen (flags), look-ups
                 \*   made (queried), blocked on the OnceLock (waited), the
                 \*   static held its vector when the call reached it (warm),
                 \*   the resolver's descriptor its pipeline was built from (resolved)
    queries      \* per availability static: registry look-ups its initialiser made, per entry

vars == <<registry, regChanges, once, cache, pc, frame, queries>>

Threads == 1..NumThreads

\* gstreamer::ElementFactory::find(name).is_some()
ElementFactory_find(name) == name \in registry

\* locals of a thread that is in no call
IdleFrame ==
    [op |-> "none", pixel_format |-> None, full_pipeline |-> None,
     codec |-> "none", buf |-> <<>>, availability |-> None, ret |-> <<>>,
     flags |-> <<>>, queried |-> 0, waited |-> FALSE, warm |-> FALSE,
     resolved |-> None]

(***************************************************************************)
(* find_available_decoder: the first decoder of the list that the registry *)
(* finds, formatted; "decodebin" when the loop ends without one.           *)
(***************************************************************************)
RECURSIVE find_from(_, _)
find_from(decoders, i) ==
    IF i > Len(decoders) THEN s_decodebin
    ELSE IF ElementFactory_find(decoders[i].name) THEN as_gst_element(decoders[i])
    ELSE find_from(decoders, i + 1)

\* faulty variant of find_available_decoder: the loop has no early return, so
\* the last decoder found wins
RECURSIVE find_last(_, _, _)
find_last(decoders, i, found) ==
    IF i > Len(decoders) THEN found
    ELSE IF ElementFactory_find(decoders[i].name)
         THEN find_last(decoders, i + 1, as_gst_element(decoders[i]))
    ELSE find_last(decoders, i + 1, found)

find_available_decoder_last(decoders) == find_last(decoders, 1, s_decodebin)

\* faulty variant of find_available_decoder: it answers from the availability
\* static of the catalog once that holds a vector
RECURSIVE find_cached(_, _, _)
find_cached(decoders, availability, i) ==
    IF i > Len(decoders) THEN s_decodebin
    ELSE IF availability[i] THEN as_gst_element(decoders[i])
    ELSE find_cached(decoders, availability, i + 1)

find_available_decoder_cached(decoders) ==
    LET c == CHOOSE k \in Codecs : Catalog(k) = decoders
    IN  IF once[c] = "complete" THEN find_cached(decoders, cache[c].val, 1)
        ELSE find_from(decoders, 1)

find_available_decoder(decoders) == find_from(decoders, 1)

\* the registry look-ups the loop of find_available_decoder makes before it returns
RECURSIVE find_lookups(_, _)
find_lookups(decoders, i) ==
    IF i > Len(decoders) THEN 0
    ELSE IF ElementFactory_find(decoders[i].name) THEN 1
    ELSE 1 + find_lookups(decoders, i + 1)

(***************************************************************************)
(* build_chain_from_defs                                                   *)
(***************************************************************************)
\* faulty variant of name_matches: the end-of-string case is missing
name_matches_no_suffix(pipeline, name) ==
    \/ contains(pipeline, name \o <<" ">>)
    \/ contains(pipeline, name \o <<"!">>)

\* name followed by space, by '!', or at the end of the pipeline string
name_matches(pipeline, name) ==
    \/ contains(pipeline, name \o <<" ">>)
    \/ contains(pipeline, name \o <<"!">>)
    \/ ends_with(pipeline, name)

\* decoders.iter().find_map(..): the name of the first decoder that matches
RECURSIVE find_map(_, _, _)
find_map(decoders, pipeline, i) ==
    IF i > Len(decoders) THEN None
    ELSE IF name_matches(pipeline, decoders[i].name) THEN Some(decoders[i].name)
    ELSE find_map(decoders, pipeline, i + 1)

\* full_pipeline.and_then(..)
active_decoder(decoders, full_pipeline) ==
    IF full_pipeline.some THEN find_map(decoders, full_pipeline.val, 1) ELSE None

\* availability.get(i).copied().unwrap_or(false), i counted from 1
availability_get(availability, i) ==
    IF i <= Len(availability) THEN availability[i] ELSE FALSE

\* faulty variant of fallback_state: the availability flag is tested first
fallback_state_available_first(decoders, availability, active, i) ==
    IF availability_get(availability, i) THEN "Available"
    ELSE IF active = Some(decoders[i].name) THEN "Selected"
    ELSE "Unavailable"

\* the state the map closure gives the i-th decoder
fallback_state(decoders, availability, active, i) ==
    IF active = Some(decoders[i].name) THEN "Selected"
    ELSE IF availability_get(availability, i) THEN "Available"
    ELSE "Unavailable"

\* faulty variant of build_chain_from_defs: every decoder whose name matches is
\* Selected, not only the first
build_chain_every_match(decoders, availability, full_pipeline) ==
    [i \in 1..Len(decoders) |->
        [name |-> decoders[i].name,
         description |-> decoders[i].description,
         state |-> IF full_pipeline.some
                      /\ name_matches(full_pipeline.val, decoders[i].name)
                       THEN "Selected"
                   ELSE IF availability_get(availability, i) THEN "Available"
                   ELSE "Unavailable"]]

build_chain_from_defs(decoders, availability, full_pipeline) ==
    LET active == active_decoder(decoders, full_pipeline)
    IN  [i \in 1..Len(decoders) |->
            [name |-> decoders[i].name,
             description |-> decoders[i].description,
             state |-> fallback_state(decoders, availability, active, i)]]

\* faulty variant of match_pixel_format: the aliases "MJPEG" and "HEVC" are missing
match_pixel_format_no_alias(pixel_format) ==
    IF pixel_format = Some("MJPG") THEN Some("MJPEG")
    ELSE IF pixel_format = Some("H264") THEN Some("H264")
    ELSE IF pixel_format = Some("H265") THEN Some("H265")
    ELSE None

\* the match of build_decoder_chain on pixel_format: which catalog and static
match_pixel_format(pixel_format) ==
    IF pixel_format = Some("MJPG") \/ pixel_format = Some("MJPEG") THEN Some("MJPEG")
    ELSE IF pixel_format = Some("H264") THEN Some("H264")
    ELSE IF pixel_format = Some("H265") \/ pixel_format = Some("HEVC") THEN Some("H265")
    ELSE None

(***************************************************************************)
(* Initial state: no static initialised, every thread idle.                *)
(***************************************************************************)
InitWith(registries) ==
    /\ registry \in registries
    /\ regChanges = 0
    /\ once = [c \in Codecs |-> "incomplete"]
    /\ cache = [c \in Codecs |-> None]
    /\ pc = [t \in Threads |-> "idle"]
    /\ frame = [t \in Threads |-> IdleFrame]
    /\ queries = [c \in Codecs |-> [i \in 1..Len(Catalog(c)) |-> 0]]

(***************************************************************************)
(* InsightsState::build_decoder_chain, step by step.                       *)
(***************************************************************************)
\* entry: the match on pixel_format; the default arm returns Vec::new()
CallBuildDecoderChain(t, pixel_format, full_pipeline) ==
    /\ pc[t] = "idle"
    /\ LET m == match_pixel_format(pixel_format)
           f == [IdleFrame EXCEPT !.op = "chain", !.pixel_format = pixel_format,
                                  !.full_pipeline = full_pipeline]
       IN  IF m.some
           THEN /\ frame' = [frame EXCEPT ![t] = [f EXCEPT !.codec = m.val]]
                /\ pc' = [pc EXCEPT ![t] = "get_or_init"]
           ELSE /\ frame' = [frame EXCEPT ![t] = f]
                /\ pc' = [pc EXCEPT ![t] = "returned"]
    /\ UNCHANGED <<registry, regChanges, once, cache, queries>>

\* faulty variant of once_may_init: check-then-act on "has a value", without
\* the lock that makes a second caller wait for the first
once_may_init_racy(c) == once[c] # "complete"

\* OnceLock::get_or_init may run the closure: nobody has, nobody is
once_may_init(c) == once[c] = "incomplete"

\* faulty variant of GetOrInit_Get: no memoisation, the vector is computed
\* again from the registry and stored over the old one
GetOrInit_Get_requery(t) ==
    /\ pc[t] = "get_or_init"
    /\ once[frame[t].codec] = "complete"
    /\ LET c == frame[t].codec
           v == [i \in 1..Len(Catalog(c)) |-> ElementFactory_find(Catalog(c)[i].name)]
       IN  /\ cache' = [cache EXCEPT ![c] = Some(v)]
           /\ frame' = [frame EXCEPT ![t].availability = Some(v)]
           /\ queries' = [queries EXCEPT ![c] = [i \in DOMAIN @ |-> @[i] + 1]]
    /\ pc' = [pc EXCEPT ![t] = "build"]
    /\ UNCHANGED <<registry, regChanges, once>>

\* get_cached_availability, the static already holds its vector
GetOrInit_Get(t) ==
    /\ pc[t] = "get_or_init"
    /\ once[frame[t].codec] = "complete"
    /\ frame' = [frame EXCEPT ![t].availability = cache[frame[t].codec],
                              ![t].warm = TRUE]
    /\ pc' = [pc EXCEPT ![t] = "build"]
    /\ UNCHANGED <<registry, regChanges, once, cache, queries>>

\* get_cached_availability, this thread becomes the one that runs the closure
GetOrInit_Begin(t) ==
    /\ pc[t] = "get_or_init"
    /\ once_may_init(frame[t].codec)
    /\ once' = [once EXCEPT ![frame[t].codec] = "running"]
    /\ frame' = [frame EXCEPT ![t].buf = <<>>]
    /\ pc' = [pc EXCEPT ![t] = "closure"]
    /\ UNCHANGED <<registry, regChanges, cache, queries>>

\* get_cached_availability, another thread is running the closure: block
GetOrInit_Wait(t) ==
    /\ pc[t] = "get_or_init"
    /\ once[frame[t].codec] = "running"
    /\ frame' = [frame EXCEPT ![t].waited = TRUE]
    /\ pc' = [pc EXCEPT ![t] = "blocked"]
    /\ UNCHANGED <<registry, regChanges, once, cache, queries>>

\* the blocked thread continues once the closure's value is stored
GetOrInit_Wake(t) ==
    /\ pc[t] = "blocked"
    /\ once[frame[t].codec] = "complete"
    /\ frame' = [frame EXCEPT ![t].availability = cache[frame[t].codec]]
    /\ pc' = [pc EXCEPT ![t] = "build"]
    /\ UNCHANGED <<registry, regChanges, once, cache, queries>>

\* the closure: .map(|d| ElementFactory::find(d.name).is_some()), one decoder
Closure_Query(t) ==
    /\ pc[t] = "closure"
    /\ Len(frame[t].buf) < Len(Catalog(frame[t].codec))
    /\ LET c == frame[t].codec
           i == Len(frame[t].buf) + 1
       IN  /\ frame' = [frame EXCEPT
                  ![t].buf = Append(@, ElementFactory_find(Catalog(c)[i].name)),
                  ![t].queried = @ + 1]
           /\ queries' = [queries EXCEPT ![c][i] = @ + 1]
    /\ UNCHANGED <<registry, regChanges, once, cache, pc>>

\* .collect(): the OnceLock stores the vector and hands out a reference to it
Closure_Store(t) ==
    /\ pc[t] = "closure"
    /\ Len(frame[t].buf) = Len(Catalog(frame[t].codec))
    /\ cache' = [cache EXCEPT ![frame[t].codec] = Some(frame[t].buf)]
    /\ once' = [once EXCEPT ![frame[t].codec] = "complete"]
    /\ frame' = [frame EXCEPT ![t].availability = Some(frame[t].buf)]
    /\ pc' = [pc EXCEPT ![t] = "build"]
    /\ UNCHANGED <<registry, regChanges, queries>>

\* build_chain_from_defs(catalog, availability, full_pipeline), returned
BuildChain(t) ==
    /\ pc[t] = "build"
    /\ frame' = [frame EXCEPT ![t].ret =
           build_chain_from_defs(Catalog(frame[t].codec),
                                 frame[t].availability.val,
                                 frame[t].full_pipeline)]
    /\ pc' = [pc EXCEPT ![t] = "returned"]
    /\ UNCHANGED <<registry, regChanges, once, cache, queries>>

(***************************************************************************)
(* find_available_decoder, called for one catalog.                         *)
(***************************************************************************)
CallFindAvailableDecoder(t, c) ==
    /\ pc[t] = "idle"
    /\ frame' = [frame EXCEPT ![t] =
           [IdleFrame EXCEPT
               !.op = "resolve",
               !.codec = c,
               !.ret = find_available_decoder(Catalog(c)),
               !.flags = [i \in 1..Len(Catalog(c)) |->
                             ElementFactory_find(Catalog(c)[i].name)],
               !.queried = find_lookups(Catalog(c), 1),
               !.warm = (once[c] = "complete")]]
    /\ pc' = [pc EXCEPT ![t] = "returned"]
    /\ UNCHANGED <<registry, regChanges, once, cache, queries>>

\* the caller has taken the return value
Return(t) ==
    /\ pc[t] = "returned"
    /\ frame' = [frame EXCEPT ![t] = IdleFrame]
    /\ pc' = [pc EXCEPT ![t] = "idle"]
    /\ UNCHANGED <<registry, regChanges, once, cache, queries>>

(***************************************************************************)
(* The environment: a plugin is installed or removed while the process     *)
(* runs, so the registry's answer for one element changes.                 *)
(***************************************************************************)
RegistryChange(name) ==
    /\ regChanges < MaxRegistryChanges
    /\ regChanges' = regChanges + 1
    /\ registry' = IF name \in registry THEN registry \ {name}
                   ELSE registry \cup {name}
    /\ UNCHANGED <<once, cache, pc, frame, queries>>

(***************************************************************************)
(* Inputs.                                                                 *)
(***************************************************************************)
DefsOf(c) == {Catalog(c)[i] : i \in 1..Len(Catalog(c))}

AllDefs == UNION {DefsOf(c) : c \in Codecs}

\* the element separator of a pipeline string
s_sep == <<" ", "!", " ">>

\* the decoder as the pipeline builder emits it: "<head><element> ! <tail>"
BuilderPipeline(d) == s_head \o as_gst_element(d) \o s_sep \o s_tail

\* the decoder's name directly followed by '!'
BangPipeline(d) == s_head \o d.name \o <<"!">> \o s_tail

\* the decoder's name as the last characters of the pipeline
TailPipeline(d) == s_head \o d.name

\* the decoder's name followed by a character that is neither ' ' nor '!'
GluedPipeline(d) == s_head \o d.name \o <<"x">> \o s_sep \o s_tail

\* two decoders of one catalog as elements of the same pipeline
PairPipeline(d1, d2) == s_head \o d1.name \o s_sep \o d2.name \o s_sep \o s_tail

AdjacentPairs(c) ==
    {<<Catalog(c)[i], Catalog(c)[j]>> :
        <<i, j>> \in {p \in (1..Len(Catalog(c))) \X (1..Len(Catalog(c))) :
                         p[1] - p[2] \in {-1, 1}}}

Pipelines ==
    {None, Some(<<>>), Some(s_head \o s_decodebin \o s_sep \o s_tail)}
    \cup {Some(BuilderPipeline(d)) : d \in AllDefs}
    \cup {Some(BangPipeline(d)) : d \in AllDefs}
    \cup {Some(TailPipeline(d)) : d \in AllDefs}
    \cup {Some(GluedPipeline(d)) : d \in AllDefs}
    \cup {Some(PairPipeline(p[1], p[2])) : p \in UNION {AdjacentPairs(c) : c \in Codecs}}

PixelFormats ==
    {None, Some("MJPG"), Some("MJPEG"), Some("H264"), Some("H265"), Some("HEVC"),
     Some("mjpg"), Some("Mjpeg"), Some("h264"), Some("hevc"), Some("YUYV"),
     Some("NV12"), Some("")}

\* registries of a machine with software decoders only, hardware decoders only,
\* every decoder and none
SoftwareOnly == {d.name : d \in {e \in AllDefs : ~e.is_hardware}}
HardwareOnly == {d.name : d \in {e \in AllDefs : e.is_hardware}}

ChainRegistries == {{}, SoftwareOnly, HardwareOnly, AllNames}

\* every assignment of presence to the decoders of one catalog
CatalogRegistries == UNION {SUBSET NamesOf(Catalog(c)) : c \in Codecs}

\* the concurrent runs: one codec and a raw format, a live pipeline or none, and the elements
\* whose plugin may come or go while the process runs
RaceFormats == {Some("MJPG"), Some("YUYV")}
RacePipelines == {None, Some(BuilderPipeline(MJPEG_DECODERS[1]))}
RaceRegistries == {{s_avdec_mjpeg}, {s_jpegdec, s_vaapijpegdec}}
RaceCodecs == {"MJPEG"}
HotPlug == {s_jpegdec, s_vaapijpegdec}

(***************************************************************************)
(* The application's flow from the resolver to the inspector: the          *)
(* descriptor find_available_decoder returned becomes an element of the    *)
(* pipeline, and the pipeline string is passed to build_decoder_chain      *)
(* together with the camera's pixel format for that codec.                 *)
(***************************************************************************)
\* the pipeline string that embeds a resolved element: "<head><element> ! <tail>"
LivePipeline(descriptor) == s_head \o descriptor \o s_sep \o s_tail

\* a pixel format build_decoder_chain maps to the catalog
pixel_format_of(c) ==
    CASE c = "MJPEG" -> "MJPG"
      [] c = "H264" -> "H264"
      [] c = "H265" -> "H265"

\* the caller of find_available_decoder takes the descriptor, and calls
\* build_decoder_chain with the pipeline built from it
CallBuildDecoderChainResolved(t) ==
    /\ pc[t] = "returned"
    /\ frame[t].op = "resolve"
    /\ frame' = [frame EXCEPT ![t] =
           [IdleFrame EXCEPT
               !.op = "chain",
               !.pixel_format = Some(pixel_format_of(frame[t].codec)),
               !.full_pipeline = Some(LivePipeline(frame[t].ret)),
               !.codec = match_pixel_format(Some(pixel_format_of(frame[t].codec))).val,
               !.resolved = Some(frame[t].ret)]]
    /\ pc' = [pc EXCEPT ![t] = "get_or_init"]
    /\ UNCHANGED <<registry, regChanges, once, cache, queries>>

(***************************************************************************)
(* Specifications.                                                         *)
(***************************************************************************)
\* concurrent callers, a registry that changes, the resolver and the inspector
Init == InitWith(RaceRegistries)

Next ==
    \/ \E t \in Threads, f \in RaceFormats, p \in RacePipelines :
           CallBuildDecoderChain(t, f, p)
    \/ \E t \in Threads : GetOrInit_Get(t)
    \/ \E t \in Threads : GetOrInit_Begin(t)
    \/ \E t \in Threads : GetOrInit_Wait(t)
    \/ \E t \in Threads : GetOrInit_Wake(t)
    \/ \E t \in Threads : Closure_Query(t)
    \/ \E t \in Threads : Closure_Store(t)
    \/ \E t \in Threads : BuildChain(t)
    \/ \E t \in Threads, c \in RaceCodecs : CallFindAvailableDecoder(t, c)
    \/ \E t \in Threads : Return(t)
    \/ \E n \in HotPlug : RegistryChange(n)

Spec == Init /\ [][Next]_vars

\* the chain inspector alone, one caller, every pixel format and pipeline
InitChain == InitWith(ChainRegistries)

NextChain ==
    \/ \E f \in PixelFormats, p \in Pipelines : CallBuildDecoderChain(1, f, p)
    \/ GetOrInit_Get(1)
    \/ GetOrInit_Begin(1)
    \/ Closure_Query(1)
    \/ Closure_Store(1)
    \/ BuildChain(1)
    \/ Return(1)

SpecChain == InitChain /\ [][NextChain]_vars

\* the resolver alone, one caller, every assignment of presence to a catalog
InitResolve == InitWith(CatalogRegistries)

NextResolve ==
    \/ \E c \in Codecs : CallFindAvailableDecoder(1, c)
    \/ Return(1)

SpecResolve == InitResolve /\ [][NextResolve]_vars

\* the concurrent system, with chain queries on pipelines built from what the
\* resolver returned
\* also a machine whose only JPEG decoder is the VA-API one
AgreeRegistries == RaceRegistries \cup {{s_vaapijpegdec}}

InitAgree == InitWith(AgreeRegistries)

NextAgree ==
    \/ Next
    \/ \E t \in Threads : CallBuildDecoderChainResolved(t)

SpecAgree == InitAgree /\ [][NextAgree]_vars

(***************************************************************************)
(* Properties.                                                             *)
(***************************************************************************)
\* threads that hold the return value of a call of the given operation
Returned(op) == {t \in Threads : pc[t] = "returned" /\ frame[t].op = op}

\* chain calls that went through a catalog (recognised pixel format)
ReturnedChains == {t \in Returned("chain") : frame[t].codec \in Codecs}

\* indices of the entries of a returned chain that are Selected
SelectedIn(chain) == {i \in 1..Len(chain) : chain[i].state = "Selected"}

\* index of the first true flag, 0 when every flag is false
FirstTrue(flags) ==
    IF \E i \in 1..Len(flags) : flags[i]
    THEN CHOOSE i \in 1..Len(flags) : flags[i] /\ \A j \in 1..(i - 1) : ~flags[j]
    ELSE 0

\* the descriptor the specification gives an entry: name, or name, space, properties
Descriptor(d) ==
    IF d.props = None THEN d.name ELSE d.name \o <<" ">> \o d.props.val

\* C1: find_available_decoder returns the formatted descriptor (name, or name,
\* one space and the property string) of the first entry in catalog order
\* whose availability flag is true, and "decodebin" iff every flag is false.
C1_FirstAvailableOrDecodebin ==
    \A t \in Returned("resolve") :
        LET decoders == Catalog(frame[t].codec)
            flags == frame[t].flags
            k == FirstTrue(flags)
        IN  /\ Len(flags) = Len(decoders)
            /\ k # 0 => frame[t].ret = Descriptor(decoders[k])
            /\ (frame[t].ret = s_decodebin) <=> (\A i \in 1..Len(flags) : ~flags[i])

\* C1 witness: the first entries are absent and a later entry with a property
\* string is chosen
C1_Witness ==
    \E t \in Returned("resolve") :
        /\ frame[t].codec = "H264"
        /\ ~frame[t].flags[1]
        /\ frame[t].flags[7]
        /\ frame[t].ret = s_avdec_h264 \o <<" ">> \o s_max_threads

\* C7: preference order is policy.  Each catalog is non-empty; MJPEG lists every
\* software entry before every hardware entry and find_available_decoder
\* returns a hardware decoder for it only when no software entry is available;
\* H.264 and H.265 list every hardware entry before every software entry and
\* a software decoder is returned only when no hardware entry is available.
C7_PreferenceOrderIsPolicy ==
    /\ \A c \in Codecs : Len(Catalog(c)) > 0
    /\ \A i, j \in 1..Len(MJPEG_DECODERS) :
           (MJPEG_DECODERS[i].is_hardware /\ ~MJPEG_DECODERS[j].is_hardware) => j < i
    /\ \A c \in {"H264", "H265"} : \A i, j \in 1..Len(Catalog(c)) :
           (Catalog(c)[i].is_hardware /\ ~Catalog(c)[j].is_hardware) => i < j
    /\ \A t \in Returned("resolve") :
           LET decoders == Catalog(frame[t].codec)
               chosen == {i \in 1..Len(decoders) :
                             frame[t].ret = Descriptor(decoders[i])}
               preferHw == frame[t].codec # "MJPEG"
           IN  \A i \in chosen :
                   decoders[i].is_hardware # preferHw =>
                       \A j \in 1..Len(decoders) :
                           decoders[j].is_hardware = preferHw => ~frame[t].flags[j]

\* C7 witness: MJPEG falls back to a hardware decoder while a later hardware
\* decoder is present too
C7_Witness ==
    \E t \in Returned("resolve") :
        /\ frame[t].codec = "MJPEG"
        /\ frame[t].ret = s_vaapijpegdec
        /\ frame[t].flags[5]

\* C4: build_decoder_chain returns a list as long as the codec's catalog for
\* exactly the pixel formats "MJPG", "MJPEG" (MJPEG), "H264" (H.264), "H265",
\* "HEVC" (H.265), whatever the pipeline descriptor, and the empty list for
\* any other value: other spellings, raw formats, None.
C4_ChainLengthByFormat ==
    \A t \in Returned("chain") :
        LET f == frame[t].pixel_format
        IN  IF f \in {Some("MJPG"), Some("MJPEG")}
                THEN Len(frame[t].ret) = Len(MJPEG_DECODERS)
            ELSE IF f = Some("H264")
                THEN Len(frame[t].ret) = Len(H264_DECODERS)
            ELSE IF f \in {Some("H265"), Some("HEVC")}
                THEN Len(frame[t].ret) = Len(H265_DECODERS)
            ELSE frame[t].ret = <<>>

\* C4 witness: the alias "HEVC" with a pipeline descriptor gives the six H.265
\* entries
C4_Witness ==
    \E t \in Returned("chain") :
        /\ frame[t].pixel_format = Some("HEVC")
        /\ frame[t].full_pipeline.some
        /\ Len(frame[t].ret) = 6

\* C5: the i-th element of the returned chain carries the name and the
\* description of the i-th catalog entry; its state is Selected if that entry
\* is the active entry detected in the pipeline descriptor, whatever its
\* flag, otherwise Available if the i-th cached flag is true, otherwise
\* Unavailable.
C5_StatusAssignment ==
    \A t \in ReturnedChains :
        LET decoders == Catalog(frame[t].codec)
            flags == cache[frame[t].codec].val
            active == active_decoder(decoders, frame[t].full_pipeline)
        IN  /\ Len(frame[t].ret) = Len(decoders)
            /\ \A i \in 1..Len(decoders) :
                   /\ frame[t].ret[i].name = decoders[i].name
                   /\ frame[t].ret[i].description = decoders[i].description
                   /\ frame[t].ret[i].state =
                          IF active.some /\ active.val = decoders[i].name
                              THEN "Selected"
                          ELSE IF flags[i] THEN "Available"
                          ELSE "Unavailable"

\* C5 witness: the active entry is Selected although its flag is false, and
\* the chain also holds an Available and an Unavailable entry
C5_Witness ==
    \E t \in ReturnedChains :
        /\ frame[t].codec = "MJPEG"
        /\ ~cache["MJPEG"].val[1]
        /\ frame[t].ret[1].state = "Selected"
        /\ frame[t].ret[2].state = "Unavailable"
        /\ frame[t].ret[3].state = "Available"

\* C6: for a pipeline descriptor in which exactly one decoder of the catalog
\* occurs as an element, as the pipeline builder emits it (formatted
\* descriptor followed by " !"), that decoder's entry and no other is
\* Selected, for every entry of every catalog.
C6_BuilderPipelineSelectsItsDecoder ==
    \A t \in ReturnedChains :
        LET decoders == Catalog(frame[t].codec)
        IN  \A k \in 1..Len(decoders) :
                frame[t].full_pipeline = Some(BuilderPipeline(decoders[k]))
                    => SelectedIn(frame[t].ret) = {k}

\* indices of the catalog entries whose name occurs in the pipeline followed
\* by a space, followed by '!', or as the suffix of the whole pipeline
Matching(decoders, full_pipeline) ==
    IF full_pipeline = None THEN {}
    ELSE {i \in 1..Len(decoders) :
             LET p == full_pipeline.val
                 n == decoders[i].name
             IN  \/ \E k \in 1..Len(p) :
                        /\ k + Len(n) <= Len(p)
                        /\ SubSeq(p, k, k + Len(n) - 1) = n
                        /\ p[k + Len(n)] \in {" ", "!"}
                 \/ /\ Len(n) <= Len(p)
                    /\ \A k \in 1..Len(n) : p[Len(p) - Len(n) + k] = n[k]}

\* C9: the active entry is the first catalog entry, in catalog order, whose
\* name occurs in the descriptor followed by a space, followed by '!', or as
\* the suffix of the descriptor; later matching entries are not considered;
\* with no match, or no descriptor, no entry is Selected.
C9_ActiveIsFirstMatch ==
    \A t \in ReturnedChains :
        LET m == Matching(Catalog(frame[t].codec), frame[t].full_pipeline)
        IN  SelectedIn(frame[t].ret) =
                IF m = {} THEN {} ELSE {CHOOSE i \in m : \A j \in m : i <= j}

\* C9 witness: two entries match and only the earlier one in catalog order is
\* Selected, although it comes later in the descriptor
C9_Witness ==
    \E t \in ReturnedChains :
        /\ frame[t].codec = "H264"
        /\ frame[t].full_pipeline = Some(PairPipeline(H264_DECODERS[7], H264_DECODERS[6]))
        /\ Matching(H264_DECODERS, frame[t].full_pipeline) = {6, 7}
        /\ SelectedIn(frame[t].ret) = {6}

\* C10: every list build_decoder_chain returns holds at most one Selected
\* entry, for every pixel format and pipeline descriptor, also when the names
\* of several catalog entries occur in the descriptor as delimited tokens.
C10_AtMostOneSelected ==
    \A t \in Returned("chain") : Cardinality(SelectedIn(frame[t].ret)) <= 1

\* C10 witness: a descriptor names two entries of the catalog and the chain
\* has exactly one Selected entry
C10_Witness ==
    \E t \in ReturnedChains :
        /\ Cardinality(Matching(Catalog(frame[t].codec), frame[t].full_pipeline)) >= 2
        /\ Cardinality(SelectedIn(frame[t].ret)) = 1

\* threads that hold a reference to the availability vector of codec c
Holders(c) ==
    {t \in Threads : /\ frame[t].op = "chain"
                     /\ frame[t].codec = c
                     /\ frame[t].availability.some}

\* C2: when several threads request the availability of one codec before the
\* first computation has finished, exactly one runs the registry queries,
\* each catalog entry is queried once, the others get nothing until the
\* vector is stored, and every caller sees the same complete vector, one flag
\* per catalog entry; nobody sees a partial vector.
C2_InitializeOnce ==
    \A c \in Codecs :
        /\ Cardinality({t \in Threads : pc[t] = "closure" /\ frame[t].codec = c}) <= 1
        /\ \A i \in 1..Len(Catalog(c)) : queries[c][i] <= 1
        /\ once[c] = "complete" =>
               /\ \A i \in 1..Len(Catalog(c)) : queries[c][i] = 1
               /\ cache[c].some
               /\ Len(cache[c].val) = Len(Catalog(c))
        /\ \A t \in Threads :
               (pc[t] = "blocked" /\ frame[t].codec = c) => ~frame[t].availability.some
        /\ \A t \in Holders(c) :
               /\ once[c] = "complete"
               /\ frame[t].availability = cache[c]
               /\ Len(frame[t].availability.val) = Len(Catalog(c))

\* C2 witness: two callers raced; one made all the queries, the other blocked
\* and made none, and both hold the same vector
C2_Witness ==
    \E c \in Codecs : \E t1, t2 \in Holders(c) :
        /\ t1 # t2
        /\ frame[t1].queried = Len(Catalog(c))
        /\ frame[t2].waited
        /\ frame[t2].queried = 0
        /\ frame[t1].availability = frame[t2].availability

\* C3: once the availability vector of a codec is computed it never changes
\* and no further registry query is made for it; every later
\* build_decoder_chain call for the codec takes that vector and derives its
\* Available / Unavailable states from it, whatever the registry answers by then.
C3_NoInvalidation ==
    [][\A c \in Codecs :
           once[c] = "complete" =>
               /\ once'[c] = "complete"
               /\ cache'[c] = cache[c]
               /\ queries'[c] = queries[c]
               /\ \A t \in Threads :
                      (frame'[t].op = "chain" /\ frame'[t].codec = c) =>
                          /\ frame'[t].queried = frame[t].queried
                          /\ (pc[t] # "build" /\ pc'[t] = "build") =>
                                 frame'[t].availability = cache[c]
                          /\ (pc[t] = "build" /\ pc'[t] = "returned") =>
                                 \A i \in 1..Len(Catalog(c)) :
                                     frame'[t].ret[i].state \in
                                         {"Selected",
                                          IF cache[c].val[i] THEN "Available"
                                          ELSE "Unavailable"}]_vars

\* C3 witness: a call that found the vector already computed, made no query,
\* and reports an entry by its cached flag although the registry now
\* answers otherwise
C3_Witness ==
    \E t \in ReturnedChains :
        /\ frame[t].warm
        /\ frame[t].queried = 0
        /\ \E i \in 1..Len(frame[t].ret) :
               /\ cache[frame[t].codec].val[i]
               /\ ~ElementFactory_find(Catalog(frame[t].codec)[i].name)
               /\ frame[t].ret[i].state = "Available"

\* the descriptor the first true flag of a vector stands for
DescriptorByFlags(decoders, flags) ==
    IF FirstTrue(flags) = 0 THEN s_decodebin
    ELSE Descriptor(decoders[FirstTrue(flags)])

\* C8 as stated: the resolver performs no registry I/O of its own and decides
\* from the cached availability record; once the record exists a call
\* issues no registry query and returns what the record says, even if the
\* registry's answers have changed.
C8_ResolverUsesCachedRecord ==
    \A t \in Returned("resolve") :
        frame[t].warm =>
            /\ frame[t].queried = 0
            /\ frame[t].ret =
                   DescriptorByFlags(Catalog(frame[t].codec), cache[frame[t].codec].val)

\* C8 amended: find_available_decoder queries the registry itself on every
\* call, entry by entry in catalog order up to and including the first one
\* found (all of them when none is), and returns the descriptor of the first
\* entry the registry finds at the time of the call, "decodebin" when none,
\* whether or not an availability record is cached.
C8_ResolverQueriesRegistry ==
    \A t \in Returned("resolve") :
        LET decoders == Catalog(frame[t].codec)
            k == FirstTrue(frame[t].flags)
        IN  /\ frame[t].queried >= 1
            /\ frame[t].queried = (IF k = 0 THEN Len(decoders) ELSE k)
            /\ frame[t].ret = DescriptorByFlags(decoders, frame[t].flags)

\* C8 witness: the record is cached, the registry has changed since, and the
\* resolver returns what the registry says now, not what the record says
C8_Witness ==
    \E t \in Returned("resolve") :
        /\ frame[t].warm
        /\ frame[t].queried >= 1
        /\ frame[t].ret #
               DescriptorByFlags(Catalog(frame[t].codec), cache[frame[t].codec].val)

\* C11: resolver and chain inspector agree.  After any registry changes,
\* resolver calls and chain queries, when the pipeline passed to
\* build_decoder_chain embeds the descriptor find_available_decoder returned
\* for the codec's catalog, the Selected entry is the entry the resolver chose
\* and every entry before it is Unavailable; when the resolver returned
\* "decodebin", no entry is Selected and none is Available.
C11_ResolverAndChainAgree ==
    \A t \in ReturnedChains :
        frame[t].resolved.some =>
            LET decoders == Catalog(frame[t].codec)
                chain == frame[t].ret
                d == frame[t].resolved.val
            IN  IF d = s_decodebin
                THEN /\ SelectedIn(chain) = {}
                     /\ \A i \in 1..Len(chain) : chain[i].state # "Available"
                ELSE \E k \in 1..Len(decoders) :
                         /\ d = Descriptor(decoders[k])
                         /\ SelectedIn(chain) = {k}
                         /\ \A j \in 1..(k - 1) : chain[j].state = "Unavailable"

\* C11 restricted to runs in which the registry never changes.  It is
\* violated too: the disagreement that remains is the name matching of
\* build_chain_from_defs ("jpegdec " occurs inside "vaapijpegdec ")
C11_AgreeWhileRegistryUnchanged ==
    regChanges = 0 => C11_ResolverAndChainAgree

\* C11 restricted to pipelines in which only the resolved decoder's name
\* matches.  It is violated too: the disagreement that remains is the
\* resolver reading the registry while the inspector reads the cached vector
C11_AgreeWhereNamesAreDistinct ==
    \A t \in ReturnedChains :
        (/\ frame[t].resolved.some
         /\ Matching(Catalog(frame[t].codec), frame[t].full_pipeline) \subseteq
                {k \in 1..Len(Catalog(frame[t].codec)) :
                    frame[t].resolved.val = Descriptor(Catalog(frame[t].codec)[k])})
            => C11_ResolverAndChainAgree

====
